---- MODULE Spec2Model ----
(***************************************************************************)
(* Model of the KPI mesh test of wirepas_backend_client                    *)
(* (src/wirepas_backend_client/test/kpi_mesh.py): the MQTT mediator        *)
(* MultiMessageMqttObserver, its three topic handlers, the queues they put *)
(* on and the start signal that gates them.                                *)
(*                                                                         *)
(* A queue variable holds, in order, every item put on the queue so far;   *)
(* the consumers of the queues are outside the mediator and not modelled.  *)
(***************************************************************************)
EXTENDS Integers, Sequences, FiniteSets

\* ------------------------------------------------------------------ bounds
\* Handler invocations made with the start signal set, per behaviour.
MaxDeliveries == 2
\* get_configs responses among them.
MaxResponses == 1
\* Longest configs list of a get_configs response.
MaxSinks == 2

\* ------------------------------------------------------------ input domains
\* Gateway ids found in status events and get_configs responses.
Gateways == {"gw1", "gw2"}

\* GatewayState of wirepas_messaging, as compared in on_status_received.
ONLINE == "ONLINE"
OFFLINE == "OFFLINE"
GatewayState == {ONLINE, OFFLINE}

\* Values of mqtt_settings.network_id: the wildcard or a network number.
NetworkIds == {"+", "1", "2"}

\* RunConfiguration enum.
RunConfiguration == {"run_normally", "run_only_http"}

\* A sink's config dict. The key network_address is present when the sink
\* reports one; a dict without the key makes config["network_address"] raise.
SinkConfigs ==
    { [sink_id |-> "sink0", network_address |-> a] : a \in {1, 2} }
        \cup { [sink_id |-> "sink0"] }

RECURSIVE SeqsUpTo(_, _)
SeqsUpTo(S, n) ==
    IF n = 0 THEN { <<>> }
    ELSE LET shorter == SeqsUpTo(S, n - 1)
         IN  shorter \cup
             { Append(s, e) : s \in { t \in shorter : Len(t) = n - 1 }, e \in S }

ConfigLists == SeqsUpTo(SinkConfigs, MaxSinks)

\* Payloads as they arrive from the broker. A payload either decodes to a
\* message body or is malformed (from_payload raises).
Malformed == [valid |-> FALSE]

StatusPayloads ==
    { [valid |-> TRUE, body |-> [gw_id |-> g, state |-> s]] :
        g \in Gateways, s \in GatewayState } \cup { Malformed }

ResponsePayloads ==
    { [valid |-> TRUE, body |-> [gw_id |-> g, configs |-> c]] :
        g \in Gateways, c \in ConfigLists } \cup { Malformed }

\* Data messages reach on_data_received already decoded by the
\* decode_topic_message decorator; the handler never looks inside.
DataMessages == { [data |-> d] : d \in {"d1", "d2"} }

\* ------------------------------------------------------------------- state
VARIABLES
    run_config,       \* module-level run configuration
    network_id,       \* the mediator's network filter, fixed at construction
    start_signal,     \* the start signal (threading/multiprocessing Event)
    storage_queue,    \* items put on the storage queue
    gw_status_queue,  \* items put on the gateway-status queue
    rx_queue,         \* requests put on the outbound queue
    last,             \* the latest handler invocation: what it was given,
                      \* what start_signal.is_set() returned, the debug line
                      \* it logged, whether it raised, the sinks it scanned
    deliveries,       \* handler invocations made with the start signal set
    responses,        \* get_configs responses among them
    online_handled,   \* per gateway: ONLINE events handled with the signal set
    status_handled,   \* gateways with a status event handled with the signal set
    pending,          \* gateways whose latest ONLINE is not yet answered
    sanity,           \* per settings object: what its sanity() returns
    pc,               \* where main() is
    task,             \* per task name: the state of the daemon's task
    threads           \* per handler: the delivery thread that runs it, when
                      \* the handlers run concurrently (SpecThreads)

vars == << run_config, network_id, start_signal, storage_queue,
           gw_status_queue, rx_queue, last, deliveries, responses,
           online_handled, status_handled, pending, sanity, pc, task,
           threads >>

\* The variables of the mediator and of its handlers.
mediator_vars == << storage_queue, gw_status_queue, rx_queue, last,
                    deliveries, responses, online_handled, status_handled,
                    pending, threads >>

\* ---------------------------------------------------------------- helpers
\* Task names of main(): storage_name, mqtt_name, control_name.
TaskNames == {"mysql", "mqtt", "http"}

\* Task states of the daemon: not built, then
\* REGISTERED -> CONFIGURED -> RUNNING -> STOPPED | FAILED.
TaskStates == {"NONE", "REGISTERED", "CONFIGURED", "RUNNING", "STOPPED",
               "FAILED"}

\* main(): use_storage / storage_name per run configuration. The mediator is
\* given a storage queue only when storage is used.
use_storage ==
    IF run_config = "run_normally" THEN TRUE
    ELSE IF run_config = "run_only_http" THEN FALSE
    ELSE TRUE

\* self.storage_queue is not None
has_storage_queue == use_storage

\* int() on the strings network_id can hold; anything else raises.
NumericStrings == {"1", "2"}
IntOf(s) == CASE s = "1" -> 1 [] s = "2" -> 2

\* Mutant: the comparison written >= instead of ==.
AddressMatches_ge(config, nid) == config.network_address >= IntOf(nid)

\* int(config["network_address"]) == int(network_id), both conversions done
AddressMatches(config, nid) == config.network_address = IntOf(nid)

\* from_payload: decodes a payload into a message, or raises.
CanDecode(payload) == payload.valid
from_payload(payload) == payload.body

\* Mutant: the request addressed to a fixed gateway, not the event's.
request_message_fixed(gw_id) == [request |-> "get_configs", gw_id |-> "gw1"]

\* mqtt_topics.request_message("get_configs", gw_id=...)
request_message(gw_id) == [request |-> "get_configs", gw_id |-> gw_id]

\* Mutant: only the first sink is forwarded.
MessageDict_one(message) ==
    [gw_id |-> message.gw_id, configs |-> SubSeq(message.configs, 1, 1)]

\* message.__dict__ of a decoded get_configs response
MessageDict(message) == [gw_id |-> message.gw_id, configs |-> message.configs]

\* What one handler invocation does: the items it puts on each queue (in
\* order), the debug line it logs, whether an exception left the handler and
\* how many sinks the config loop looked at.
Outcome(storage, gw_status, rx, line, raised, scanned) ==
    [ storage |-> storage, gw_status |-> gw_status, rx |-> rx,
      log |-> line, raised |-> raised, scanned |-> scanned ]

Nothing(line) == Outcome(<<>>, <<>>, <<>>, line, FALSE, 0)
Raised(scanned) == Outcome(<<>>, <<>>, <<>>, "none", TRUE, scanned)

\* ---------------------------------------------------------------- handlers
\* Mutant: the start signal is not consulted.
on_data_received_ungated(message, is_set) ==
    IF has_storage_queue
    THEN Outcome(<<message>>, <<>>, <<>>, "none", FALSE, 0)
    ELSE Nothing("none")

\* Mutant: no test for a missing storage queue; None.put raises.
on_data_received_noguard(message, is_set) ==
    IF is_set
    THEN IF has_storage_queue
         THEN Outcome(<<message>>, <<>>, <<>>, "none", FALSE, 0)
         ELSE Raised(0)
    ELSE Nothing("data ignored")

\* Mutant: the message is put twice.
on_data_received_twice(message, is_set) ==
    IF is_set
    THEN IF has_storage_queue
         THEN Outcome(<<message, message>>, <<>>, <<>>, "none", FALSE, 0)
         ELSE Nothing("none")
    ELSE Nothing("data ignored")

on_data_received(message, is_set) ==
    IF is_set
    THEN IF has_storage_queue
         THEN Outcome(<<message>>, <<>>, <<>>, "none", FALSE, 0)
         ELSE Nothing("none")
    ELSE Nothing("data ignored")

\* gw_status_msg = {"gw_id": message.gw_id, "configs": []}
OfflineRecord(gw_id) == [gw_id |-> gw_id, configs |-> <<>>]

\* self.rx_queue.put(request)
PutRequest(gw_id) ==
    Outcome(<<>>, <<>>, <<request_message(gw_id)>>, "none", FALSE, 0)

\* self.gw_status_queue.put(gw_status_msg)
PutOffline(gw_id) ==
    Outcome(<<>>, <<OfflineRecord(gw_id)>>, <<>>, "none", FALSE, 0)

\* Both puts at once, as the mutants below do.
PutBoth(gw_id) ==
    Outcome(<<>>, <<OfflineRecord(gw_id)>>, <<request_message(gw_id)>>,
            "none", FALSE, 0)

\* Mutant: a status event dropped while the signal was unset is kept and
\* handled together with the next one.
on_status_received_replay(payload, is_set) ==
    LET Handle(p) ==
          IF ~CanDecode(p) THEN Raised(0)
          ELSE IF from_payload(p).state = ONLINE
               THEN PutRequest(from_payload(p).gw_id)
               ELSE PutOffline(from_payload(p).gw_id)
        kept == IF last.handler = "on_status_received" /\ ~last.is_set
                   /\ CanDecode(last.payload)
                THEN Handle(last.payload)
                ELSE Nothing("none")
        now == Handle(payload)
    IN  IF is_set
        THEN Outcome(<<>>, kept.gw_status \o now.gw_status,
                     kept.rx \o now.rx, "none", now.raised, 0)
        ELSE Nothing("gw status ignored")

\* Mutant: the OFFLINE branch asks for the configuration as well.
on_status_received_offline_asks(payload, is_set) ==
    IF is_set
    THEN IF ~CanDecode(payload) THEN Raised(0)
         ELSE LET message == from_payload(payload)
              IN  IF message.state = ONLINE
                  THEN PutRequest(message.gw_id)
                  ELSE PutBoth(message.gw_id)
    ELSE Nothing("gw status ignored")

\* Mutant: the state test inverted.
on_status_received_inverted(payload, is_set) ==
    IF is_set
    THEN IF ~CanDecode(payload) THEN Raised(0)
         ELSE LET message == from_payload(payload)
              IN  IF message.state # ONLINE
                  THEN PutRequest(message.gw_id)
                  ELSE PutOffline(message.gw_id)
    ELSE Nothing("gw status ignored")

\* Mutant: a gateway already asked is not asked again.
on_status_received_dedup(payload, is_set) ==
    IF is_set
    THEN IF ~CanDecode(payload) THEN Raised(0)
         ELSE LET message == from_payload(payload)
              IN  IF message.state = ONLINE
                  THEN IF \E i \in 1..Len(rx_queue) :
                            rx_queue[i] = request_message(message.gw_id)
                       THEN Nothing("none")
                       ELSE PutRequest(message.gw_id)
                  ELSE PutOffline(message.gw_id)
    ELSE Nothing("gw status ignored")

\* Mutant: the ONLINE branch puts a record at once, without the configs.
on_status_received_online_record(payload, is_set) ==
    IF is_set
    THEN IF ~CanDecode(payload) THEN Raised(0)
         ELSE LET message == from_payload(payload)
              IN  IF message.state = ONLINE
                  THEN PutBoth(message.gw_id)
                  ELSE PutOffline(message.gw_id)
    ELSE Nothing("gw status ignored")

on_status_received(payload, is_set) ==
    IF is_set
    THEN IF ~CanDecode(payload) THEN Raised(0)
         ELSE LET message == from_payload(payload)
              IN  IF message.state = ONLINE
                  THEN PutRequest(message.gw_id)
                  ELSE PutOffline(message.gw_id)
    ELSE Nothing("gw status ignored")

\* Mutant: no break after the first matching sink.
RECURSIVE ConfigLoop_nobreak(_, _, _, _, _)
ConfigLoop_nobreak(message, nid, i, put, configuration_processed) ==
    IF i > Len(message.configs)
    THEN Outcome(<<>>, put, <<>>,
                 IF configuration_processed THEN "configuration received"
                 ELSE "configuration not processed",
                 FALSE, i - 1)
    ELSE LET config == message.configs[i]
         IN  IF nid # "+"
             THEN IF "network_address" \notin DOMAIN config
                     \/ nid \notin NumericStrings
                  THEN Outcome(<<>>, put, <<>>, "none", TRUE, i)
                  ELSE IF AddressMatches(config, nid)
                       THEN ConfigLoop_nobreak(message, nid, i + 1,
                                Append(put, MessageDict(message)), TRUE)
                       ELSE ConfigLoop_nobreak(message, nid, i + 1, put,
                                               configuration_processed)
             ELSE ConfigLoop_nobreak(message, nid, i + 1,
                                     Append(put, MessageDict(message)), TRUE)

\* Mutant: under "+" the response is put once, at the first sink.
RECURSIVE ConfigLoop_once(_, _, _, _, _)
ConfigLoop_once(message, nid, i, put, configuration_processed) ==
    IF i > Len(message.configs)
    THEN Outcome(<<>>, put, <<>>,
                 IF configuration_processed THEN "configuration received"
                 ELSE "configuration not processed",
                 FALSE, i - 1)
    ELSE LET config == message.configs[i]
         IN  IF nid # "+"
             THEN IF "network_address" \notin DOMAIN config
                     \/ nid \notin NumericStrings
                  THEN Outcome(<<>>, put, <<>>, "none", TRUE, i)
                  ELSE IF AddressMatches(config, nid)
                       THEN Outcome(<<>>, Append(put, MessageDict(message)),
                                    <<>>, "configuration received", FALSE, i)
                       ELSE ConfigLoop_once(message, nid, i + 1, put,
                                            configuration_processed)
             ELSE Outcome(<<>>, Append(put, MessageDict(message)), <<>>,
                          "configuration received", FALSE, i)

\* Mutant: a sink without network_address is skipped instead of raising.
RECURSIVE ConfigLoop_skip(_, _, _, _, _)
ConfigLoop_skip(message, nid, i, put, configuration_processed) ==
    IF i > Len(message.configs)
    THEN Outcome(<<>>, put, <<>>,
                 IF configuration_processed THEN "configuration received"
                 ELSE "configuration not processed",
                 FALSE, i - 1)
    ELSE LET config == message.configs[i]
         IN  IF nid # "+"
             THEN IF "network_address" \notin DOMAIN config
                     \/ nid \notin NumericStrings
                  THEN ConfigLoop_skip(message, nid, i + 1, put,
                                       configuration_processed)
                  ELSE IF AddressMatches(config, nid)
                       THEN Outcome(<<>>, Append(put, MessageDict(message)),
                                    <<>>, "configuration received", FALSE, i)
                       ELSE ConfigLoop_skip(message, nid, i + 1, put,
                                            configuration_processed)
             ELSE ConfigLoop_skip(message, nid, i + 1,
                                  Append(put, MessageDict(message)), TRUE)

\* The for loop over message.configs, from sink i on; put holds what the
\* loop has put on the gateway-status queue so far.
RECURSIVE ConfigLoop(_, _, _, _, _)
ConfigLoop(message, nid, i, put, configuration_processed) ==
    IF i > Len(message.configs)
    THEN Outcome(<<>>, put, <<>>,
                 IF configuration_processed THEN "configuration received"
                 ELSE "configuration not processed",
                 FALSE, i - 1)
    ELSE LET config == message.configs[i]
         IN  IF nid # "+"
             THEN IF "network_address" \notin DOMAIN config
                     \/ nid \notin NumericStrings
                  THEN Outcome(<<>>, put, <<>>, "none", TRUE, i)
                  ELSE IF AddressMatches(config, nid)
                       THEN Outcome(<<>>, Append(put, MessageDict(message)),
                                    <<>>, "configuration received", FALSE, i)
                       ELSE ConfigLoop(message, nid, i + 1, put,
                                       configuration_processed)
             ELSE ConfigLoop(message, nid, i + 1,
                             Append(put, MessageDict(message)), TRUE)

\* Mutant: a response is forwarded only for a gateway that was asked.
on_response_cb_correlated(payload, nid, is_set) ==
    IF is_set
    THEN IF ~CanDecode(payload) THEN Raised(0)
         ELSE IF \E i \in 1..Len(rx_queue) :
                   rx_queue[i].gw_id = from_payload(payload).gw_id
              THEN ConfigLoop(from_payload(payload), nid, 1, <<>>, FALSE)
              ELSE Nothing("configuration not processed")
    ELSE Nothing("gw configuration ignored")

\* Mutant: a response without sinks is forwarded once.
on_response_cb_empty(payload, nid, is_set) ==
    IF is_set
    THEN IF ~CanDecode(payload) THEN Raised(0)
         ELSE IF from_payload(payload).configs = <<>>
              THEN Outcome(<<>>, << MessageDict(from_payload(payload)) >>,
                           <<>>, "configuration received", FALSE, 0)
              ELSE ConfigLoop(from_payload(payload), nid, 1, <<>>, FALSE)
    ELSE Nothing("gw configuration ignored")

on_response_cb(payload, nid, is_set) ==
    IF is_set
    THEN IF ~CanDecode(payload) THEN Raised(0)
         ELSE ConfigLoop(from_payload(payload), nid, 1, <<>>, FALSE)
    ELSE Nothing("gw configuration ignored")

\* ----------------------------------------------------------------- actions
\* The three handlers the mediator subscribes.
Handlers == {"on_data_received", "on_status_received", "on_response_cb"}

\* A delivery thread that has not been given a message: where it is in its
\* handler, the message, the loop position and configuration_processed.
IdleThread == [at |-> "idle", payload |-> Malformed, i |-> 0,
               configuration_processed |-> FALSE, raised |-> FALSE]

Init ==
    /\ run_config \in RunConfiguration
    /\ network_id \in NetworkIds
    /\ start_signal = FALSE
    /\ storage_queue = <<>>
    /\ gw_status_queue = <<>>
    /\ rx_queue = <<>>
    /\ last = [handler |-> "none", payload |-> Malformed, is_set |-> FALSE,
               log |-> "none", raised |-> FALSE, scanned |-> 0,
               stopped |-> FALSE,
               before |-> [storage |-> 0, gw_status |-> 0, rx |-> 0]]
    /\ deliveries = 0
    /\ responses = 0
    /\ online_handled = [g \in Gateways |-> 0]
    /\ status_handled = {}
    /\ pending = {}
    \* MySQLSettings is only built when storage is used.
    /\ sanity \in { f \in [{"mqtt", "http", "mysql"} -> BOOLEAN] :
                      ~use_storage => f["mysql"] }
    /\ pc = "validate"
    /\ task = [t \in TaskNames |-> "NONE"]
    /\ threads = [h \in Handlers |-> IdleThread]

\* main(): if mqtt_settings.sanity() and http_settings.sanity(), go on to
\* build the tasks; otherwise log the settings and leave.
validate ==
    /\ pc = "validate"
    /\ pc' = IF sanity["mqtt"] /\ sanity["http"] THEN "build_storage"
             ELSE "exit"
    /\ UNCHANGED << run_config, network_id, start_signal, mediator_vars,
                    sanity, task >>

\* main(): daemon.build(storage_name, MySQLObserver, ...) and
\* daemon.set_run(storage_name, ...), when storage_name is not None.
build_storage ==
    /\ pc = "build_storage"
    /\ pc' = "build_mqtt"
    /\ task' = IF use_storage THEN [task EXCEPT !["mysql"] = "CONFIGURED"]
               ELSE task
    /\ UNCHANGED << run_config, network_id, start_signal, mediator_vars,
                    sanity >>

\* main(): daemon.build(mqtt_name, MultiMessageMqttObserver, ...)
build_mqtt ==
    /\ pc = "build_mqtt"
    /\ pc' = "build_http"
    /\ task' = [task EXCEPT !["mqtt"] = "REGISTERED"]
    /\ UNCHANGED << run_config, network_id, start_signal, mediator_vars,
                    sanity >>

\* main(): daemon.build(control_name, HTTPObserver, ..., send_to=mqtt_name)
build_http ==
    /\ pc = "build_http"
    /\ pc' = "start"
    /\ task' = [task EXCEPT !["http"] = "REGISTERED"]
    /\ UNCHANGED << run_config, network_id, start_signal, mediator_vars,
                    sanity >>

\* The tasks main() has built.
Registered == { t \in TaskNames : task[t] # "NONE" }

\* daemon.start: one registered task is launched and either runs or fails to
\* initialize. A task built from settings whose sanity() is false does not
\* initialize.
launch(t) ==
    /\ pc = "start"
    /\ task[t] \in {"REGISTERED", "CONFIGURED"}
    /\ \E outcome \in {"RUNNING", "FAILED"} :
         /\ outcome = "RUNNING" => sanity[t]
         /\ task' = [task EXCEPT ![t] = outcome]
    /\ UNCHANGED << run_config, network_id, start_signal, mediator_vars,
                    sanity, pc >>

\* Mutant: the start signal is set as soon as start is called.
start_early ==
    /\ pc = "start"
    /\ ~start_signal
    /\ start_signal' = TRUE
    /\ UNCHANGED << run_config, network_id, mediator_vars, sanity, pc, task >>

\* daemon.start(set_start_signal=True): once every registered task runs, the
\* daemon sets the start signal.
start ==
    /\ pc = "start"
    /\ \A t \in Registered : task[t] = "RUNNING"
    /\ start_signal' = TRUE
    /\ pc' = "running"
    /\ UNCHANGED << run_config, network_id, mediator_vars, sanity, task >>

\* daemon.start: a task failed to initialize; the tasks already started are
\* stopped, the start signal is not set and start fails.
start_fails ==
    /\ pc = "start"
    /\ \E t \in Registered : task[t] = "FAILED"
    /\ task' = [t \in TaskNames |->
                  IF task[t] = "RUNNING" THEN "STOPPED" ELSE task[t]]
    /\ pc' = "exit"
    /\ UNCHANGED << run_config, network_id, start_signal, mediator_vars,
                    sanity >>

\* The daemon is stopped: every running task stops; the start signal is left
\* as it is.
stop ==
    /\ pc = "running"
    /\ task' = [t \in TaskNames |->
                  IF task[t] = "RUNNING" THEN "STOPPED" ELSE task[t]]
    /\ pc' = "exit"
    /\ UNCHANGED << run_config, network_id, start_signal, mediator_vars,
                    sanity >>

\* Mutant: a handler invocation clears the start signal.
Apply_clears(handler, payload, out) ==
    /\ storage_queue' = storage_queue \o out.storage
    /\ gw_status_queue' = gw_status_queue \o out.gw_status
    /\ rx_queue' = rx_queue \o out.rx
    /\ last' = [handler |-> handler, payload |-> payload,
                is_set |-> start_signal, log |-> out.log,
                raised |-> out.raised, scanned |-> out.scanned,
                stopped |-> (task["mqtt"] = "STOPPED"),
                before |-> [storage |-> Len(storage_queue),
                            gw_status |-> Len(gw_status_queue),
                            rx |-> Len(rx_queue)]]
    /\ deliveries' = IF start_signal THEN deliveries + 1 ELSE deliveries
    /\ start_signal' = FALSE
    /\ UNCHANGED << run_config, network_id, sanity, pc, task, threads >>

\* The effect of one handler invocation on the queues and the log.
Apply(handler, payload, out) ==
    /\ storage_queue' = storage_queue \o out.storage
    /\ gw_status_queue' = gw_status_queue \o out.gw_status
    /\ rx_queue' = rx_queue \o out.rx
    /\ last' = [handler |-> handler, payload |-> payload,
                is_set |-> start_signal, log |-> out.log,
                raised |-> out.raised, scanned |-> out.scanned,
                stopped |-> (task["mqtt"] = "STOPPED"),
                before |-> [storage |-> Len(storage_queue),
                            gw_status |-> Len(gw_status_queue),
                            rx |-> Len(rx_queue)]]
    /\ deliveries' = IF start_signal THEN deliveries + 1 ELSE deliveries
    /\ UNCHANGED << run_config, network_id, start_signal, sanity, pc, task,
                    threads >>

\* The broker delivers to the mediator once its task was launched.
CanDeliver ==
    /\ task["mqtt"] \in {"RUNNING", "STOPPED"}
    /\ start_signal => deliveries < MaxDeliveries

DeliverData(message) ==
    /\ CanDeliver
    /\ Apply("on_data_received", message,
             on_data_received(message, start_signal))
    /\ UNCHANGED << responses, online_handled, status_handled, pending >>

DeliverStatus(payload) ==
    /\ CanDeliver
    /\ Apply("on_status_received", payload,
             on_status_received(payload, start_signal))
    /\ online_handled' =
         IF start_signal /\ payload.valid /\ payload.body.state = ONLINE
         THEN [online_handled EXCEPT ![payload.body.gw_id] = @ + 1]
         ELSE online_handled
    /\ status_handled' =
         IF start_signal /\ payload.valid
         THEN status_handled \cup {payload.body.gw_id}
         ELSE status_handled
    /\ pending' =
         IF start_signal /\ payload.valid /\ payload.body.state = ONLINE
         THEN pending \cup {payload.body.gw_id}
         ELSE pending
    /\ UNCHANGED responses

DeliverResponse(payload) ==
    /\ CanDeliver
    /\ start_signal => responses < MaxResponses
    /\ Apply("on_response_cb", payload,
             on_response_cb(payload, network_id, start_signal))
    /\ responses' = IF start_signal THEN responses + 1 ELSE responses
    /\ pending' =
         IF start_signal /\ payload.valid
         THEN pending \ {payload.body.gw_id}
         ELSE pending
    /\ UNCHANGED << online_handled, status_handled >>

Next ==
    \/ validate
    \/ build_storage
    \/ build_mqtt
    \/ build_http
    \/ \E t \in TaskNames : launch(t)
    \/ start
    \/ start_fails
    \/ \E message \in DataMessages : DeliverData(message)
    \/ \E payload \in StatusPayloads : DeliverStatus(payload)
    \/ \E payload \in ResponsePayloads : DeliverResponse(payload)

Spec == Init /\ [][Next]_vars

\* The same, with the daemon stopped at any moment after the start.
NextLifecycle == Next \/ stop

SpecLifecycle == Init /\ [][NextLifecycle]_vars

\* ------------------------------------------------ handlers run concurrently
\* The handlers on one delivery thread each, the start signal set. A step of
\* a thread is what its handler does up to and including its next put (a
\* queue's put is atomic); the steps of the threads interleave freely.
InitThreads ==
    /\ run_config \in RunConfiguration
    /\ network_id \in NetworkIds
    /\ start_signal = TRUE
    /\ storage_queue = <<>>
    /\ gw_status_queue = <<>>
    /\ rx_queue = <<>>
    /\ last = [handler |-> "none", payload |-> Malformed, is_set |-> FALSE,
               log |-> "none", raised |-> FALSE, scanned |-> 0,
               stopped |-> FALSE,
               before |-> [storage |-> 0, gw_status |-> 0, rx |-> 0]]
    /\ deliveries = 0
    /\ responses = 0
    /\ online_handled = [g \in Gateways |-> 0]
    /\ status_handled = {}
    /\ pending = {}
    /\ sanity = [x \in {"mqtt", "http", "mysql"} |-> TRUE]
    /\ pc = "running"
    /\ task = [t \in TaskNames |->
                 IF t = "mysql" /\ ~use_storage THEN "NONE" ELSE "RUNNING"]
    /\ threads = [h \in Handlers |-> IdleThread]

\* What the broker can deliver to a handler.
Inbox(h) ==
    CASE h = "on_data_received" -> DataMessages
      [] h = "on_status_received" -> StatusPayloads
      [] h = "on_response_cb" -> ResponsePayloads

thread_unchanged ==
    UNCHANGED << run_config, network_id, start_signal, last, deliveries,
                 responses, online_handled, status_handled, pending, sanity,
                 pc, task >>

\* The thread of handler h is given a message and finds the start signal set.
thread_receive(h, payload) ==
    /\ threads[h].at = "idle"
    /\ start_signal
    /\ threads' = [threads EXCEPT ![h] =
                     [at |-> "handling", payload |-> payload, i |-> 1,
                      configuration_processed |-> FALSE, raised |-> FALSE]]
    /\ UNCHANGED << storage_queue, gw_status_queue, rx_queue >>
    /\ thread_unchanged

Done(h, raised) ==
    threads' = [threads EXCEPT ![h].at = "done", ![h].raised = raised]

\* on_data_received: the put on the storage queue, if there is one.
thread_data ==
    LET h == "on_data_received" IN
    /\ threads[h].at = "handling"
    /\ storage_queue' = IF has_storage_queue
                        THEN Append(storage_queue, threads[h].payload)
                        ELSE storage_queue
    /\ Done(h, FALSE)
    /\ UNCHANGED << gw_status_queue, rx_queue >>
    /\ thread_unchanged

\* on_status_received: decoding, then the one put of the branch taken.
thread_status ==
    LET h == "on_status_received"
        payload == threads[h].payload
    IN  /\ threads[h].at = "handling"
        /\ IF ~CanDecode(payload)
           THEN /\ Done(h, TRUE)
                /\ UNCHANGED << gw_status_queue, rx_queue >>
           ELSE /\ Done(h, FALSE)
                /\ IF from_payload(payload).state = ONLINE
                   THEN /\ rx_queue' =
                             Append(rx_queue,
                                    request_message(from_payload(payload).gw_id))
                        /\ UNCHANGED gw_status_queue
                   ELSE /\ gw_status_queue' =
                             Append(gw_status_queue,
                                    OfflineRecord(from_payload(payload).gw_id))
                        /\ UNCHANGED rx_queue
        /\ UNCHANGED storage_queue
        /\ thread_unchanged

\* Mutant: the put writes back the queue as the thread knew it (the items it
\* put itself), losing what another thread has put meanwhile.
thread_response_lossy ==
    LET h == "on_response_cb"
        payload == threads[h].payload
        i == threads[h].i
    IN  /\ threads[h].at = "handling"
        /\ IF ~CanDecode(payload)
           THEN Done(h, TRUE) /\ UNCHANGED gw_status_queue
           ELSE LET message == from_payload(payload) IN
                IF i > Len(message.configs)
                THEN Done(h, FALSE) /\ UNCHANGED gw_status_queue
                ELSE IF network_id # "+"
                     THEN IF "network_address" \notin DOMAIN message.configs[i]
                             \/ network_id \notin NumericStrings
                          THEN Done(h, TRUE) /\ UNCHANGED gw_status_queue
                          ELSE IF AddressMatches(message.configs[i], network_id)
                               THEN /\ gw_status_queue' =
                                         << MessageDict(message) >>
                                    /\ Done(h, FALSE)
                               ELSE /\ threads' = [threads EXCEPT ![h].i = i + 1]
                                    /\ UNCHANGED gw_status_queue
                     ELSE /\ gw_status_queue' =
                               [k \in 1..i |-> MessageDict(message)]
                          /\ threads' =
                               [threads EXCEPT
                                  ![h].i = i + 1,
                                  ![h].configuration_processed = TRUE]
        /\ UNCHANGED << storage_queue, rx_queue >>
        /\ thread_unchanged

\* on_response_cb: decoding, then one iteration of the loop over
\* message.configs, or the log line after the loop.
thread_response ==
    LET h == "on_response_cb"
        payload == threads[h].payload
        i == threads[h].i
    IN  /\ threads[h].at = "handling"
        /\ IF ~CanDecode(payload)
           THEN Done(h, TRUE) /\ UNCHANGED gw_status_queue
           ELSE LET message == from_payload(payload) IN
                IF i > Len(message.configs)
                THEN Done(h, FALSE) /\ UNCHANGED gw_status_queue
                ELSE IF network_id # "+"
                     THEN IF "network_address" \notin DOMAIN message.configs[i]
                             \/ network_id \notin NumericStrings
                          THEN Done(h, TRUE) /\ UNCHANGED gw_status_queue
                          ELSE IF AddressMatches(message.configs[i], network_id)
                               THEN /\ gw_status_queue' =
                                         Append(gw_status_queue,
                                                MessageDict(message))
                                    /\ Done(h, FALSE)
                               ELSE /\ threads' = [threads EXCEPT ![h].i = i + 1]
                                    /\ UNCHANGED gw_status_queue
                     ELSE /\ gw_status_queue' =
                               Append(gw_status_queue, MessageDict(message))
                          /\ threads' =
                               [threads EXCEPT
                                  ![h].i = i + 1,
                                  ![h].configuration_processed = TRUE]
        /\ UNCHANGED << storage_queue, rx_queue >>
        /\ thread_unchanged

NextThreads ==
    \/ \E h \in Handlers : \E payload \in Inbox(h) : thread_receive(h, payload)
    \/ thread_data
    \/ thread_status
    \/ thread_response

SpecThreads == InitThreads /\ [][NextThreads]_vars

\* ------------------------------------------------------- common predicates
\* The step is a handler invocation made with the start signal set.
GatedStep(handler) ==
    /\ deliveries' = deliveries + 1
    /\ last'.handler = handler

\* The latest invocation was of this handler, with the start signal set.
Gated(handler) == last.handler = handler /\ last.is_set

StatusEvent(g, s) == [valid |-> TRUE, body |-> [gw_id |-> g, state |-> s]]

GetConfigs(g) == [request |-> "get_configs", gw_id |-> g]

Count(q, x) == Cardinality({ i \in 1..Len(q) : q[i] = x })

\* --------------------------------------------------------------------- C1
\* C1 (pre-gate drop): in every state in which the start signal is unset,
\* whatever data messages, status events and config responses the handlers
\* were given so far, the storage queue, the gateway-status queue and the
\* outbound (rx) queue are all empty.
C1_PreGateDrop ==
    ~start_signal =>
        /\ storage_queue = <<>>
        /\ gw_status_queue = <<>>
        /\ rx_queue = <<>>

\* A handler was given a message while the start signal was unset.
C1_Witness ==
    /\ ~start_signal
    /\ last.handler \in {"on_data_received", "on_status_received",
                         "on_response_cb"}
    /\ ~last.is_set
    /\ last.log # "none"

\* --------------------------------------------------------------------- C2
\* C2 (online -> request): an invocation of on_status_received with the start
\* signal set, for a status event ONLINE of gateway G, appends exactly one
\* get_configs request for G to the rx queue and leaves the gateway-status
\* queue as it was.
C2_OnlineRequest ==
    [][ \A g \in Gateways :
          (GatedStep("on_status_received")
             /\ last'.payload = StatusEvent(g, ONLINE))
          => /\ rx_queue' = Append(rx_queue, GetConfigs(g))
             /\ gw_status_queue' = gw_status_queue ]_vars

C2_Witness ==
    /\ Gated("on_status_received")
    /\ last.payload = StatusEvent("gw2", ONLINE)
    /\ rx_queue # <<>>
    /\ rx_queue[Len(rx_queue)] = GetConfigs("gw2")

\* --------------------------------------------------------------------- C3
\* C3 (offline -> synthesis): an invocation of on_status_received with the
\* start signal set, for a status event OFFLINE of gateway G, appends exactly
\* one record {gw_id: G, configs: []} to the gateway-status queue and leaves
\* the rx queue as it was.
C3_OfflineSynthesis ==
    [][ \A g \in Gateways :
          (GatedStep("on_status_received")
             /\ last'.payload = StatusEvent(g, OFFLINE))
          => /\ gw_status_queue' =
                  Append(gw_status_queue, [gw_id |-> g, configs |-> <<>>])
             /\ rx_queue' = rx_queue ]_vars

C3_Witness ==
    /\ Gated("on_status_received")
    /\ last.payload = StatusEvent("gw2", OFFLINE)
    /\ gw_status_queue # <<>>
    /\ gw_status_queue[Len(gw_status_queue)] =
           [gw_id |-> "gw2", configs |-> <<>>]

\* ------------------------------------------- config responses, as received
HasAddress(config) == "network_address" \in DOMAIN config

\* The positions of the sinks whose network_address is the number n.
MatchingSinks(configs, n) ==
    { i \in 1..Len(configs) :
        HasAddress(configs[i]) /\ configs[i].network_address = n }

FirstMatch(configs, n) ==
    CHOOSE i \in MatchingSinks(configs, n) :
        \A j \in MatchingSinks(configs, n) : i <= j

\* Some sink matches n and every sink received before the first such sink
\* carries a network_address.
MatchReached(configs, n) ==
    /\ MatchingSinks(configs, n) # {}
    /\ \A j \in 1..(FirstMatch(configs, n) - 1) : HasAddress(configs[j])

\* n copies of x
Copies(n, x) == [i \in 1..n |-> x]

\* --------------------------------------------------------------------- C4
\* C4 (specific-filter first match): with a network number as filter, an
\* invocation of on_response_cb with the start signal set puts at most one
\* item on the gateway-status queue; when some sink of the response has the
\* filter's network_address (the sinks received before the first such sink all
\* carrying a network_address), it puts the response exactly once and the
\* first such sink is the last sink the loop looks at.
C4_FirstMatch ==
    [][ (GatedStep("on_response_cb") /\ network_id # "+")
        => /\ Len(gw_status_queue') <= Len(gw_status_queue) + 1
           /\ last'.payload.valid =>
                LET response == last'.payload.body
                    n == IntOf(network_id)
                IN  MatchReached(response.configs, n) =>
                      /\ gw_status_queue' = Append(gw_status_queue, response)
                      /\ last'.scanned = FirstMatch(response.configs, n) ]_vars

\* A response with several matching sinks was handled: one emission, the
\* sinks after the first match not looked at.
C4_Witness ==
    /\ Gated("on_response_cb")
    /\ network_id = "2"
    /\ last.payload.valid
    /\ Cardinality(MatchingSinks(last.payload.body.configs, 2)) > 1
    /\ last.scanned < Len(last.payload.body.configs)
    /\ Count(gw_status_queue, last.payload.body) = 1

\* --------------------------------------------------------------------- C5
\* C5 (wildcard duplication): with the filter "+", an invocation of
\* on_response_cb with the start signal set appends len(response.configs)
\* items to the gateway-status queue, one per sink whatever its
\* network_address, each of them the full response.
C5_WildcardDuplication ==
    [][ (GatedStep("on_response_cb") /\ network_id = "+"
           /\ last'.payload.valid)
        => LET response == last'.payload.body
           IN  gw_status_queue' =
                 gw_status_queue \o Copies(Len(response.configs), response)
       ]_vars

\* A response with two sinks of different networks was handled under "+".
C5_Witness ==
    /\ Gated("on_response_cb")
    /\ network_id = "+"
    /\ last.payload.valid
    /\ Len(last.payload.body.configs) = 2
    /\ last.payload.body.configs[1] # last.payload.body.configs[2]
    /\ Count(gw_status_queue, last.payload.body) = 2

\* --------------------------------------------------------------------- C6
\* C6 (no match): with a network number as filter, an invocation of
\* on_response_cb with the start signal set, for a response whose sinks all
\* carry a network_address and none of them the filter's, puts nothing on any
\* queue and logs the "not processed" line.
C6_NoMatch ==
    [][ (GatedStep("on_response_cb") /\ network_id # "+"
           /\ last'.payload.valid)
        => LET configs == last'.payload.body.configs
           IN  ( /\ \A i \in 1..Len(configs) : HasAddress(configs[i])
                 /\ MatchingSinks(configs, IntOf(network_id)) = {} )
               => /\ UNCHANGED << gw_status_queue, storage_queue, rx_queue >>
                  /\ last'.log = "configuration not processed" ]_vars

\* A response with sinks, all of another network, was handled.
C6_Witness ==
    /\ Gated("on_response_cb")
    /\ network_id = "2"
    /\ last.payload.valid
    /\ last.payload.body.configs # <<>>
    /\ \A i \in 1..Len(last.payload.body.configs) :
         /\ HasAddress(last.payload.body.configs[i])
         /\ last.payload.body.configs[i].network_address # 2
    /\ last.log = "configuration not processed"
    /\ gw_status_queue = <<>>

\* --------------------------------------------------------------------- C7
\* C7 (request iff ONLINE after gate): in every state and for every gateway G,
\* the rx queue holds a get_configs request for G if and only if a status
\* event ONLINE of G was handled with the start signal set; the rx queue
\* holds nothing but such requests.
C7_RequestIffOnline ==
    /\ \A g \in Gateways :
         (\E i \in 1..Len(rx_queue) : rx_queue[i] = GetConfigs(g))
           <=> online_handled[g] > 0
    /\ \A i \in 1..Len(rx_queue) :
         \E g \in Gateways : rx_queue[i] = GetConfigs(g)

\* ONLINE of gw1 was handled and requested; gw2, whose OFFLINE was handled,
\* has no request.
C7_Witness ==
    /\ online_handled["gw1"] > 0
    /\ online_handled["gw2"] = 0
    /\ "gw2" \in status_handled
    /\ rx_queue = << GetConfigs("gw1") >>

\* --------------------------------------------------------------------- C8
\* C8 (idempotence absence): in every state and for every gateway G, the
\* number of get_configs requests for G on the rx queue equals the number of
\* ONLINE events of G handled with the start signal set; the same ONLINE
\* event handled twice leaves two requests.
C8_NoDeduplication ==
    \A g \in Gateways : Count(rx_queue, GetConfigs(g)) = online_handled[g]

\* The same ONLINE event was handled twice.
C8_Witness ==
    /\ online_handled["gw1"] = 2
    /\ rx_queue = << GetConfigs("gw1"), GetConfigs("gw1") >>

\* --------------------------------------------------------------------- C9
\* A record of gateway g is on the gateway-status queue.
HasRecord(g) ==
    \E i \in 1..Len(gw_status_queue) : gw_status_queue[i].gw_id = g

\* C9 as claimed: every gateway with a status event (ONLINE or OFFLINE)
\* handled with the start signal set has a record on the gateway-status
\* queue, at the latest once the get_configs response that answers its
\* ONLINE event has been handled.
C9_RecordForEveryStatusEvent ==
    \A g \in status_handled : HasRecord(g) \/ g \in pending

\* The response passes the network filter: under "+" it has a sink, under a
\* network number the loop reaches a sink of that network.
PassesFilter(response) ==
    IF network_id = "+"
    THEN response.configs # <<>>
    ELSE MatchReached(response.configs, IntOf(network_id))

\* The step appends at least one record of gateway g to the gateway-status
\* queue, and only records of g.
PutsRecord(g) ==
    /\ Len(gw_status_queue') > Len(gw_status_queue)
    /\ SubSeq(gw_status_queue', 1, Len(gw_status_queue)) = gw_status_queue
    /\ \A i \in (Len(gw_status_queue) + 1)..Len(gw_status_queue') :
         gw_status_queue'[i].gw_id = g

\* C9 (amended): a step puts a record of gateway G on the gateway-status
\* queue exactly when it is, with the start signal set, the handling of an
\* OFFLINE event of G or of a get_configs response of G that passes the
\* network filter; the handling of an ONLINE event puts no record, and a
\* response that does not pass the filter leaves the queue as it was.
C9_RecordSources ==
    [][ /\ \A g \in Gateways :
             PutsRecord(g) <=>
               \/ /\ GatedStep("on_status_received")
                  /\ last'.payload = StatusEvent(g, OFFLINE)
               \/ /\ GatedStep("on_response_cb")
                  /\ last'.payload.valid
                  /\ last'.payload.body.gw_id = g
                  /\ PassesFilter(last'.payload.body)
        /\ (\A g \in Gateways : ~PutsRecord(g))
             => gw_status_queue' = gw_status_queue ]_vars

\* The ONLINE event of gw1 was handled, then its response, which did not
\* pass the filter: no record of gw1.
C9_Witness ==
    /\ online_handled["gw1"] > 0
    /\ Gated("on_response_cb")
    /\ last.payload.valid
    /\ last.payload.body.gw_id = "gw1"
    /\ last.payload.body.configs # <<>>
    /\ ~PassesFilter(last.payload.body)
    /\ ~HasRecord("gw1")

\* -------------------------------------------------------------------- C10
\* C10 as claimed: every invocation of on_data_received with the start
\* signal set appends the message, unchanged, to the storage queue once and
\* leaves the gateway-status queue and the rx queue as they were.
C10_DataForwardingAlways ==
    [][ GatedStep("on_data_received")
        => /\ storage_queue' = Append(storage_queue, last'.payload)
           /\ UNCHANGED << gw_status_queue, rx_queue >> ]_vars

\* C10 (amended): when the mediator has a storage queue, every invocation of
\* on_data_received with the start signal set appends the message, unchanged,
\* to the storage queue once and leaves the gateway-status queue and the rx
\* queue as they were.
C10_DataForwarding ==
    [][ (GatedStep("on_data_received") /\ has_storage_queue)
        => /\ storage_queue' = Append(storage_queue, last'.payload)
           /\ UNCHANGED << gw_status_queue, rx_queue >> ]_vars

\* Two different data messages were forwarded, in the order handled.
C10_Witness ==
    /\ has_storage_queue
    /\ Gated("on_data_received")
    /\ storage_queue = << [data |-> "d2"], [data |-> "d1"] >>
    /\ last.payload = [data |-> "d1"]

\* -------------------------------------------------------------------- C11
\* C11 (gate monotonicity): the start signal is unset initially; no step, be
\* it a handler invocation, a step of the start or the stop, unsets it once
\* it is set; and every handler invocation made once it is set, those after
\* the stop included, finds it set.
C11_GateMonotonic ==
    /\ ~start_signal
    /\ [][ start_signal =>
             /\ start_signal'
             /\ (last' # last \/ deliveries' # deliveries) => last'.is_set
         ]_vars

\* A handler was invoked after the daemon was stopped and found the signal set.
C11_Witness ==
    /\ pc = "exit"
    /\ start_signal
    /\ last.handler = "on_status_received"
    /\ last.stopped
    /\ last.is_set
    /\ rx_queue # <<>>

\* -------------------------------------------------------------------- C12
\* C12 (two-phase startup): in every state in which the start signal is set,
\* every task main() registered has reached RUNNING (it runs, or ran and was
\* stopped); and a handler invoked while some registered task had not yet
\* reached RUNNING found the signal unset and put nothing.
C12_GateAfterAllRunning ==
    /\ start_signal =>
         \A t \in Registered : task[t] \in {"RUNNING", "STOPPED"}
    /\ (\E t \in Registered : task[t] \in {"REGISTERED", "CONFIGURED"})
         => /\ ~last.is_set
            /\ storage_queue = <<>>
            /\ gw_status_queue = <<>>
            /\ rx_queue = <<>>

\* The three tasks run, the signal is set, and a message that came while the
\* mediator ran but the signal was unset was dropped.
C12_Witness ==
    /\ start_signal
    /\ Registered = TaskNames
    /\ \A t \in TaskNames : task[t] = "RUNNING"
    /\ last.handler = "on_status_received"
    /\ ~last.is_set

\* -------------------------------------------------------------------- C13
\* C13 as claimed: when sanity() of the MQTT, the MySQL or the HTTP settings
\* is false, main() builds and starts no task and the start signal is never
\* set.
C13_ValidationBeforeStart ==
    (\E x \in {"mqtt", "http", "mysql"} : ~sanity[x])
      => /\ Registered = {}
         /\ ~start_signal

\* ------------------------------------------ what the latest invocation put
\* The items of queue q from position n + 1 on.
AddedTo(q, n) == SubSeq(q, n + 1, Len(q))

\* The items the latest handler invocation put on each queue: the queues only
\* change in handler invocations, and last.before holds their lengths at the
\* start of the latest one.
PutOnStorage == AddedTo(storage_queue, last.before.storage)
PutOnGwStatus == AddedTo(gw_status_queue, last.before.gw_status)
PutOnRx == AddedTo(rx_queue, last.before.rx)

NoPuts == PutOnStorage = <<>> /\ PutOnGwStatus = <<>> /\ PutOnRx = <<>>

\* -------------------------------------------------------------------- C14
\* C14 (no replay): a queue changes only in a handler invocation made with the
\* start signal set, and what such an invocation appends derives from the
\* message it was given: a data message itself, or requests and records of
\* the gateway of the status event or response handled. So setting the signal
\* puts nothing, and a message dropped earlier never shows up later.
C14_NoReplay ==
    [][ /\ ( \/ storage_queue' # storage_queue
             \/ gw_status_queue' # gw_status_queue
             \/ rx_queue' # rx_queue )
           => deliveries' = deliveries + 1
        /\ SubSeq(storage_queue', 1, Len(storage_queue)) = storage_queue
        /\ SubSeq(gw_status_queue', 1, Len(gw_status_queue)) = gw_status_queue
        /\ SubSeq(rx_queue', 1, Len(rx_queue)) = rx_queue
        /\ \A i \in (Len(storage_queue) + 1)..Len(storage_queue') :
             /\ last'.handler = "on_data_received"
             /\ storage_queue'[i] = last'.payload
        /\ \A i \in (Len(gw_status_queue) + 1)..Len(gw_status_queue') :
             /\ last'.handler \in {"on_status_received", "on_response_cb"}
             /\ last'.payload.valid
             /\ gw_status_queue'[i].gw_id = last'.payload.body.gw_id
        /\ \A i \in (Len(rx_queue) + 1)..Len(rx_queue') :
             /\ last'.handler = "on_status_received"
             /\ last'.payload.valid
             /\ rx_queue'[i].gw_id = last'.payload.body.gw_id ]_vars

\* An ONLINE event of gw1 was dropped, the signal was set afterwards, and
\* the queues hold nothing.
C14_Witness ==
    /\ start_signal
    /\ pc = "running"
    /\ last.handler = "on_status_received"
    /\ last.payload = StatusEvent("gw1", ONLINE)
    /\ ~last.is_set
    /\ rx_queue = <<>>
    /\ gw_status_queue = <<>>

\* -------------------------------------------------------------------- C15
\* Some sink of the list has no network_address.
SomeSinkLacksAddress(configs) ==
    \E i \in 1..Len(configs) : ~HasAddress(configs[i])

\* A sink without network_address comes before every sink of network n.
LackReached(configs, n) ==
    \E i \in 1..Len(configs) :
        /\ ~HasAddress(configs[i])
        /\ \A j \in MatchingSinks(configs, n) : i < j

\* C15 as claimed: an invocation of on_status_received or on_response_cb with
\* the start signal set raises and puts nothing when the payload does not
\* decode or, under a network number as filter, some sink of the response has
\* no network_address.
C15_MalformedAlwaysRaises ==
    ( /\ last.is_set
      /\ \/ /\ last.handler \in {"on_status_received", "on_response_cb"}
            /\ ~last.payload.valid
         \/ /\ last.handler = "on_response_cb"
            /\ last.payload.valid
            /\ network_id # "+"
            /\ SomeSinkLacksAddress(last.payload.body.configs) )
    => last.raised /\ NoPuts

\* C15 (amended): an invocation of on_status_received or on_response_cb with
\* the start signal set raises and puts nothing when the payload does not
\* decode or, under a network number as filter, a sink without
\* network_address comes before every sink that matches the filter; and no
\* invocation that raises has put anything.
C15_DecodingErrors ==
    /\ ( /\ last.is_set
         /\ \/ /\ last.handler \in {"on_status_received", "on_response_cb"}
               /\ ~last.payload.valid
            \/ /\ last.handler = "on_response_cb"
               /\ last.payload.valid
               /\ network_id # "+"
               /\ LackReached(last.payload.body.configs, IntOf(network_id)) )
       => last.raised /\ NoPuts
    /\ last.raised => NoPuts

\* The loop went past a sink of another network and raised at a sink without
\* network_address.
C15_Witness ==
    /\ Gated("on_response_cb")
    /\ network_id = "2"
    /\ last.payload.valid
    /\ Len(last.payload.body.configs) = 2
    /\ HasAddress(last.payload.body.configs[1])
    /\ ~HasAddress(last.payload.body.configs[2])
    /\ last.raised
    /\ last.scanned = 2
    /\ NoPuts

\* -------------------------------------------------------------------- C16
\* C16 (emission payload): every item an invocation of on_response_cb puts on
\* the gateway-status queue, under a network number as under "+", is the full
\* response: its gateway id and its whole configs list in the order received.
C16_FullResponse ==
    last.handler = "on_response_cb" =>
        \A i \in 1..Len(PutOnGwStatus) :
            /\ last.payload.valid
            /\ PutOnGwStatus[i] = last.payload.body

\* Under the filter 2 a response with a sink of network 1 and one of network
\* 2 was forwarded with both sinks.
C16_Witness ==
    /\ Gated("on_response_cb")
    /\ network_id = "2"
    /\ last.payload.valid
    /\ last.payload.body.configs =
         << [sink_id |-> "sink0", network_address |-> 1],
            [sink_id |-> "sink0", network_address |-> 2] >>
    /\ Len(PutOnGwStatus) = 1
    /\ PutOnGwStatus[1].configs = last.payload.body.configs

\* -------------------------------------------------------------------- C17
\* What a status event yields when handled with the signal set.
ExpectedOfStatus(payload) ==
    IF ~payload.valid THEN [gw_status |-> <<>>, rx |-> <<>>]
    ELSE IF payload.body.state = ONLINE
         THEN [gw_status |-> <<>>, rx |-> << GetConfigs(payload.body.gw_id) >>]
         ELSE [gw_status |-> << [gw_id |-> payload.body.gw_id,
                                  configs |-> <<>>] >>,
               rx |-> <<>>]

\* What a get_configs response yields when handled with the signal set under
\* the filter nid.
ExpectedOfResponse(payload, nid) ==
    IF ~payload.valid THEN <<>>
    ELSE IF nid = "+"
         THEN Copies(Len(payload.body.configs), payload.body)
         ELSE IF MatchReached(payload.body.configs, IntOf(nid))
              THEN << payload.body >>
              ELSE <<>>

\* C17 (statelessness): what an invocation puts on the queues is a function
\* of the message it is given, the network filter and the value of the start
\* signal (and, for a data message, of whether the mediator was constructed
\* with a storage queue): it is the same whatever was delivered before.
C17_Stateless ==
    /\ (last.handler # "none" /\ ~last.is_set) => NoPuts
    /\ Gated("on_data_received") =>
         /\ PutOnStorage = IF has_storage_queue THEN << last.payload >>
                           ELSE <<>>
         /\ PutOnGwStatus = <<>>
         /\ PutOnRx = <<>>
    /\ Gated("on_status_received") =>
         /\ PutOnStorage = <<>>
         /\ PutOnGwStatus = ExpectedOfStatus(last.payload).gw_status
         /\ PutOnRx = ExpectedOfStatus(last.payload).rx
    /\ Gated("on_response_cb") =>
         /\ PutOnStorage = <<>>
         /\ PutOnGwStatus = ExpectedOfResponse(last.payload, network_id)
         /\ PutOnRx = <<>>

\* A response of gw1 was handled although gw1 was never asked (its OFFLINE
\* event came before), and was forwarded all the same.
C17_Witness ==
    /\ Gated("on_response_cb")
    /\ last.payload.valid
    /\ last.payload.body.gw_id = "gw1"
    /\ rx_queue = <<>>
    /\ Len(gw_status_queue) > 1
    /\ gw_status_queue[1] = [gw_id |-> "gw1", configs |-> <<>>]
    /\ PutOnGwStatus # <<>>

\* -------------------------------------------------------------------- C19
\* C19 (empty configuration list): an invocation of on_response_cb with the
\* start signal set, for a response whose configs list is empty, puts nothing
\* on any queue, under "+" as under a network number, and logs the "not
\* processed" line.
C19_EmptyConfigs ==
    ( /\ Gated("on_response_cb")
      /\ last.payload.valid
      /\ last.payload.body.configs = <<>> )
    => /\ NoPuts
       /\ ~last.raised
       /\ last.log = "configuration not processed"

\* Under "+": gw1 came ONLINE and was asked, its response without sinks was
\* handled, and the gateway-status queue holds no record of gw1.
C19_Witness ==
    /\ network_id = "+"
    /\ online_handled["gw1"] = 1
    /\ Gated("on_response_cb")
    /\ last.payload.valid
    /\ last.payload.body = [gw_id |-> "gw1", configs |-> <<>>]
    /\ rx_queue = << GetConfigs("gw1") >>
    /\ gw_status_queue = <<>>

\* -------------------------------------------------------------------- C20
\* C20 (missing storage queue): when the mediator has no storage queue, an
\* invocation of on_data_received with the start signal set puts nothing on
\* any queue and does not raise, while status events and get_configs
\* responses yield what they yield with a storage queue.
C20_MissingStorageQueue ==
    ~has_storage_queue =>
        /\ storage_queue = <<>>
        /\ Gated("on_data_received") => (NoPuts /\ ~last.raised)
        /\ Gated("on_status_received") =>
             /\ PutOnGwStatus = ExpectedOfStatus(last.payload).gw_status
             /\ PutOnRx = ExpectedOfStatus(last.payload).rx
             /\ last.raised = ~last.payload.valid
        /\ Gated("on_response_cb") =>
             /\ PutOnGwStatus = ExpectedOfResponse(last.payload, network_id)
             /\ PutOnRx = <<>>

\* Without a storage queue: an OFFLINE event left its record, then a data
\* message was dropped.
C20_Witness ==
    /\ run_config = "run_only_http"
    /\ ~has_storage_queue
    /\ Gated("on_data_received")
    /\ ~last.raised
    /\ storage_queue = <<>>
    /\ gw_status_queue = << [gw_id |-> "gw2", configs |-> <<>>] >>

\* -------------------------------------------------------------------- C18
\* q holds the items of a and the items of b and nothing else, those of a in
\* the order of a and those of b in the order of b.
RECURSIVE IsMerge(_, _, _)
IsMerge(q, a, b) ==
    IF q = <<>> THEN a = <<>> /\ b = <<>>
    ELSE \/ /\ a # <<>>
            /\ Head(q) = Head(a)
            /\ IsMerge(Tail(q), Tail(a), b)
         \/ /\ b # <<>>
            /\ Head(q) = Head(b)
            /\ IsMerge(Tail(q), a, Tail(b))

AllDone == \A h \in Handlers : threads[h].at = "done"

\* What the handler of thread h puts when it runs alone on its message.
Alone(h) ==
    CASE h = "on_data_received" ->
           on_data_received(threads[h].payload, TRUE)
      [] h = "on_status_received" ->
           on_status_received(threads[h].payload, TRUE)
      [] h = "on_response_cb" ->
           on_response_cb(threads[h].payload, network_id, TRUE)

\* C18 (concurrent handlers): once the three handlers, run concurrently with
\* the start signal set, have returned, under every interleaving each queue
\* holds exactly the items the invocations put when run alone, none lost and
\* none twice, the items of one invocation in the order it put them.
C18_ConcurrentHandlers ==
    AllDone =>
        /\ storage_queue = Alone("on_data_received").storage
        /\ rx_queue = Alone("on_status_received").rx
        /\ IsMerge(gw_status_queue,
                   Alone("on_status_received").gw_status,
                   Alone("on_response_cb").gw_status)
        /\ \A h \in Handlers : threads[h].raised = Alone(h).raised

\* Under "+" the record of an OFFLINE event came between the two copies of a
\* response: the copies are not contiguous.
C18_Witness ==
    /\ AllDone
    /\ network_id = "+"
    /\ Len(gw_status_queue) = 3
    /\ gw_status_queue[1] = gw_status_queue[3]
    /\ gw_status_queue[1] = threads["on_response_cb"].payload.body
    /\ gw_status_queue[2] = [gw_id |-> "gw1", configs |-> <<>>]
    /\ storage_queue # <<>>

====
